---- MODULE Spec2Model ----
(***************************************************************************)
(* A model of the pdf-extractor repository: the numeric canonicalizers     *)
(* (script.py, standard_schema_extractor.py, page8_extractor.py,           *)
(* pymupdf_extractor.py, extract_page8_changes_equity.py), the             *)
(* rectangularizer and the schema mapper of                                *)
(* FinancialStatementExtractorSingleSheet (script.py).                     *)
(*                                                                         *)
(* Python values are tagged records.  A text is a sequence of characters,  *)
(* each character a one-element string; the non-ASCII characters are the   *)
(* tokens NBSP (U+00A0) and ENDASH (U+2013).                               *)
(***************************************************************************)
EXTENDS Integers, Sequences, FiniteSets, TLC

VARIABLES
    value,             \* the cell handed to a numeric canonicalizer
    fn,                \* which canonicalizer has been applied to it
    result,            \* what the canonicalizer returned
    again,             \* what it returned when applied to its own result
    pdf,               \* the document: a sequence of pages, each a sequence of raw tables
    extracted_tables,  \* self.extracted_tables: the DataFrames, as sequences of rows
    table_metadata,    \* self.table_metadata
    transformed_data,  \* the records of the last transform_to_standard_schema run
    run_tables,        \* the tables that run read (extracted_tables when it started)
    rect,              \* the last rectangularizer call: raw row, width, output
    prog,              \* the main program that runs, or the class whose object a
                       \* caller drives; "none" without either
    pc,                \* its position
    self_headers,      \* self.headers of a BudimexPage8Extractor
    self_data_rows,    \* its self.data_rows / self.extracted_data / self.table_data
    workbook,          \* the workbook as wb.save() left it on disk
    raised,            \* the exception that ended the program, "none" without one
    stages             \* the components a main program of script.py has invoked, or
                       \* the operations a caller has invoked on the object, in order

vars == <<value, fn, result, again, pdf, extracted_tables, table_metadata,
          transformed_data, run_tables, rect, prog, pc, self_headers, self_data_rows,
          workbook, raised, stages>>

numVars == <<value, fn, result, again>>
pipeVars == <<pdf, extracted_tables, table_metadata, transformed_data, run_tables>>
mainVars == <<prog, pc, self_headers, self_data_rows, workbook, raised, stages>>

\* no file saved
NoWorkbook == [saved |-> FALSE, header |-> <<>>, rows |-> <<>>]

\* no main program running
MainIdle ==
    /\ prog = "none"
    /\ pc = "idle"
    /\ self_headers = <<>>
    /\ self_data_rows = <<>>
    /\ workbook = NoWorkbook
    /\ raised = "none"
    /\ stages = <<>>

----------------------------------------------------------------------------
(* Bounds of the model *)

\* longest text enumerated exhaustively over Alphabet
MaxLen == 3

----------------------------------------------------------------------------
(* Python values *)

None == [kind |-> "None"]
Unset == [kind |-> "unset"]
Str(s) == [kind |-> "str", s |-> s]
PyInt(n) == [kind |-> "int", v |-> n]
Finite(neg, n, d) == [kind |-> "float", cls |-> "fin", neg |-> neg, n |-> n, d |-> d]
NaN == [kind |-> "float", cls |-> "nan", neg |-> FALSE, n |-> 0, d |-> 1]
Inf(neg) == [kind |-> "float", cls |-> "inf", neg |-> neg, n |-> 0, d |-> 1]

\* the characters of a string literal
Chars(lit) == [i \in 1..Len(lit) |-> SubSeq(lit, i, i)]

NBSP == "NBSP"
ENDASH == "ENDASH"

\* str.isspace() characters that occur in the model
Whitespace == {" ", NBSP, "\n", "\r", "\t"}

Digits == Chars("0123456789")
UpperCase == Chars("ABCDEFGHIJKLMNOPQRSTUVWXYZ")
LowerCase == Chars("abcdefghijklmnopqrstuvwxyz")

IsDigit(c) == \E i \in 1..10 : Digits[i] = c
DigitVal(c) == (CHOOSE i \in 1..10 : Digits[i] = c) - 1

\* str.lower()
LowerChar(c) ==
    IF \E i \in 1..26 : UpperCase[i] = c
    THEN LowerCase[CHOOSE i \in 1..26 : UpperCase[i] = c]
    ELSE c
Lower(s) == [i \in 1..Len(s) |-> LowerChar(s[i])]

\* str.strip(): drop the leading and the trailing whitespace
RECURSIVE LStrip(_)
LStrip(s) ==
    IF s # <<>> /\ Head(s) \in Whitespace THEN LStrip(Tail(s)) ELSE s
RECURSIVE RStrip(_)
RStrip(s) ==
    IF s # <<>> /\ s[Len(s)] \in Whitespace THEN RStrip(SubSeq(s, 1, Len(s) - 1)) ELSE s
Strip(s) == RStrip(LStrip(s))

\* chained str.replace(c, ''): drop every character of cs
RECURSIVE Remove(_, _)
Remove(s, cs) ==
    IF s = <<>> THEN <<>>
    ELSE IF Head(s) \in cs THEN Remove(Tail(s), cs)
    ELSE <<Head(s)>> \o Remove(Tail(s), cs)

\* str.replace(c, ' ')
ReplaceWithSpace(s, cs) == [i \in 1..Len(s) |-> IF s[i] \in cs THEN " " ELSE s[i]]

StartsWith(s, c) == s # <<>> /\ s[1] = c
EndsWith(s, c) == s # <<>> /\ s[Len(s)] = c
\* s[1:-1]
Inner(s) == SubSeq(s, 2, Len(s) - 1)

RECURSIVE Pow10(_)
Pow10(k) == IF k = 0 THEN 1 ELSE 10 * Pow10(k - 1)

RECURSIVE NatOf(_)
NatOf(ds) == IF ds = <<>> THEN 0 ELSE 10 * NatOf(SubSeq(ds, 1, Len(ds) - 1)) + DigitVal(ds[Len(ds)])

RECURSIVE NatChars(_)
NatChars(n) == IF n < 10 THEN <<Digits[n + 1]>> ELSE NatChars(n \div 10) \o <<Digits[(n % 10) + 1]>>

RECURSIVE DropTrailingZeros(_)
DropTrailingZeros(ds) ==
    IF ds # <<>> /\ ds[Len(ds)] = "0" THEN DropTrailingZeros(SubSeq(ds, 1, Len(ds) - 1)) ELSE ds

AllDigits(s) == \A i \in 1..Len(s) : IsDigit(s[i])

\* the unsigned decimal literals float() accepts: digits, with at most one point
\* and at least one digit (exponents and digit-group underscores do not occur in
\* the texts of this model)
IsDecimal(s) ==
    /\ \E i \in 1..Len(s) : IsDigit(s[i])
    /\ \A i \in 1..Len(s) : IsDigit(s[i]) \/ s[i] = "."
    /\ Cardinality({i \in 1..Len(s) : s[i] = "."}) <= 1

DecimalValue(s, neg) ==
    LET dot == IF \E i \in 1..Len(s) : s[i] = "."
               THEN CHOOSE i \in 1..Len(s) : s[i] = "."
               ELSE Len(s) + 1
        ip == SubSeq(s, 1, dot - 1)
        fp == DropTrailingZeros(SubSeq(s, dot + 1, Len(s)))
    IN Finite(neg, NatOf(ip \o fp), Pow10(Len(fp)))

\* float(text) of a str: [ok |-> FALSE] stands for ValueError
PyFloat(s) ==
    LET t == Strip(s)
        signed == t # <<>> /\ t[1] \in {"+", "-"}
        neg == t # <<>> /\ t[1] = "-"
        body == IF signed THEN Tail(t) ELSE t
        word == Lower(body)
    IN IF word = Chars("nan") THEN [ok |-> TRUE, val |-> NaN]
       ELSE IF word = Chars("inf") \/ word = Chars("infinity")
            THEN [ok |-> TRUE, val |-> Inf(neg)]
       ELSE IF IsDecimal(body) THEN [ok |-> TRUE, val |-> DecimalValue(body, neg)]
       ELSE [ok |-> FALSE, val |-> NaN]

\* unary minus and multiplication by -1 of a float
Negate(f) == IF f.cls = "nan" THEN f ELSE [f EXCEPT !.neg = ~f.neg]

IsNumber(v) == v.kind \in {"int", "float"}
IsNegative(v) ==
    \/ v.kind = "int" /\ v.v < 0
    \/ v.kind = "float" /\ v.cls # "nan" /\ v.neg /\ (v.cls = "inf" \/ v.n > 0)
IsPositive(v) ==
    \/ v.kind = "int" /\ v.v > 0
    \/ v.kind = "float" /\ v.cls # "nan" /\ ~v.neg /\ (v.cls = "inf" \/ v.n > 0)

\* str(float): repr of a float within [1e-4, 1e16), where Python prints no exponent
FloatStr(f) ==
    IF f.cls = "nan" THEN Chars("nan")
    ELSE IF f.cls = "inf" THEN (IF f.neg THEN Chars("-inf") ELSE Chars("inf"))
    ELSE LET ip == NatChars(f.n \div f.d)
             fr == f.n % f.d
             frs == IF f.d = 1 THEN <<"0">>
                    ELSE LET raw == NatChars(fr)
                             width == Len(NatChars(f.d)) - 1
                         IN [i \in 1..(width - Len(raw)) |-> "0"] \o raw
         IN (IF f.neg THEN <<"-">> ELSE <<>>) \o ip \o <<".">> \o frs

\* str(value)
PyStr(v) ==
    IF v.kind = "str" THEN v.s
    ELSE IF v.kind = "None" THEN Chars("None")
    ELSE IF v.kind = "int"
         THEN (IF v.v < 0 THEN <<"-">> \o NatChars(-v.v) ELSE NatChars(v.v))
    ELSE FloatStr(v)

\* truthiness: bool(value)
Truthy(v) ==
    IF v.kind = "None" THEN FALSE
    ELSE IF v.kind = "str" THEN v.s # <<>>
    ELSE IF v.kind = "int" THEN v.v # 0
    ELSE v.cls # "fin" \/ v.n # 0

\* the Cell Value kind of a returned value
CellKind(v) ==
    IF v.kind = "None" THEN "Null"
    ELSE IF IsNumber(v) THEN "Number"
    ELSE "Text"

----------------------------------------------------------------------------
(* Outcomes of a call: a returned value, or an exception that escapes *)

Return(v) == [exc |-> "none", ret |-> v]
Raise(e) == [exc |-> e, ret |-> None]

\* "fixed values are " + num: str + float is a TypeError
StrPlus(v) == IF v.kind = "str" THEN Return(v) ELSE Raise("TypeError")

\* a handler that names ValueError alone (a faulty variant of BareExcept)
ExceptValueErrorOnly(exc) == exc = "ValueError"

\* script.py's bare "except:" clauses catch every exception
BareExcept(exc) == TRUE

\* "except (ValueError, AttributeError):"
ExceptValueOrAttribute(exc) == exc \in {"ValueError", "AttributeError"}

----------------------------------------------------------------------------
(* script.py: FinancialStatementExtractorSingleSheet._convert_to_numeric *)

Separators == {",", " ", NBSP}

\* the try body of the parenthesis branch
ScriptParenTry(value_str) ==
    LET inner == Remove(Inner(value_str), Separators)
        num == PyFloat(inner)
    IN IF ~num.ok THEN Raise("ValueError") ELSE Return(Negate(num.val))

\* the try body of the regular branch
ScriptRegularTry(value_str) ==
    LET clean_value == Remove(value_str, Separators)
        num == PyFloat(clean_value)
    IN IF ~num.ok THEN Raise("ValueError")
       ELSE IF StrPlus(num.val).exc # "none" THEN StrPlus(num.val)
       ELSE Return(num.val)

ScriptHandled(try, value_str) ==
    IF try.exc = "none" THEN try
    ELSE IF BareExcept(try.exc) THEN Return(Str(value_str))
    ELSE try

convert_to_numeric_script(v) ==
    IF v = None THEN Return(None)
    ELSE IF IsNumber(v) THEN Return(v)
    ELSE LET value_str == Strip(PyStr(v))
         IN IF value_str = <<>> \/ Lower(value_str) = Chars("nan") THEN Return(None)
            ELSE IF value_str = <<"-">> \/ value_str = <<ENDASH>> THEN Return(None)
            ELSE IF StartsWith(value_str, "(") /\ EndsWith(value_str, ")")
                 THEN ScriptHandled(ScriptParenTry(value_str), value_str)
            ELSE ScriptHandled(ScriptRegularTry(value_str), value_str)

----------------------------------------------------------------------------
(* standard_schema_extractor.py: _convert_to_numeric *)

convert_to_numeric_standard(v) ==
    IF v = None THEN Return(v)
    ELSE LET value_str == Strip(PyStr(v))
         IN IF value_str = <<>> \/ value_str = Chars("nan") THEN Return(None)
            ELSE IF StartsWith(value_str, "(") /\ EndsWith(value_str, ")")
                 THEN LET num == PyFloat(Remove(Inner(value_str), {",", " "}))
                      IN IF num.ok THEN Return(Negate(num.val)) ELSE Return(Str(value_str))
            ELSE LET clean_value == Remove(value_str, {",", " "})
                 IN IF PyFloat(clean_value).ok THEN Return(Str(clean_value))
                    ELSE Return(Str(value_str))

----------------------------------------------------------------------------
(* page8_extractor.py: BudimexPage8Extractor._try_parse_number *)

TryParseNumberTry(text) ==
    IF StartsWith(text, "(") /\ EndsWith(text, ")")
    THEN LET num == PyFloat(Remove(Inner(text), {",", " "}))
         IN IF num.ok THEN Return(Negate(num.val)) ELSE Raise("ValueError")
    ELSE LET num == PyFloat(Remove(text, {",", " "}))
         IN IF num.ok THEN Return(num.val) ELSE Raise("ValueError")

try_parse_number(v) ==
    IF ~Truthy(v) \/ v.kind # "str" THEN Return(v)
    ELSE LET text == Strip(v.s)
         IN IF text = <<>> \/ text = <<"-">> THEN Return(None)
            ELSE LET try == TryParseNumberTry(text)
                 IN IF try.exc = "none" THEN try
                    ELSE IF ExceptValueOrAttribute(try.exc) THEN Return(Str(text))
                    ELSE try

----------------------------------------------------------------------------
(* pymupdf_extractor.py: BudimexPage8Extractor._parse_number *)

\* the parenthesis test written with "or" (a faulty variant of parse_number)
parse_number_or(v) ==
    IF ~Truthy(v) \/ v = Str(<<"-">>) THEN Return(None)
    ELSE LET text == Remove(Strip(PyStr(v)), {"\n", "\r"})
         IN IF StartsWith(text, "(") \/ EndsWith(text, ")")
            THEN LET num == PyFloat(Remove(Inner(text), {",", " "}))
                 IN IF num.ok THEN Return(Negate(num.val)) ELSE Return(Str(text))
            ELSE LET num == PyFloat(Remove(text, {",", " "}))
                 IN IF num.ok THEN Return(num.val) ELSE Return(Str(text))

parse_number(v) ==
    IF ~Truthy(v) \/ v = Str(<<"-">>) THEN Return(None)
    ELSE LET text == Remove(Strip(PyStr(v)), {"\n", "\r"})
         IN IF StartsWith(text, "(") /\ EndsWith(text, ")")
            THEN LET num == PyFloat(Remove(Inner(text), {",", " "}))
                 IN IF num.ok THEN Return(Negate(num.val)) ELSE Return(Str(text))
            ELSE LET num == PyFloat(Remove(text, {",", " "}))
                 IN IF num.ok THEN Return(num.val) ELSE Return(Str(text))

----------------------------------------------------------------------------
(* extract_page8_changes_equity.py: the cell parser of create_excel_file,  *)
(* applied to a cell as extract_page_8 stores it                           *)

\* extract_page_8: None becomes "", any other cell str(cell).strip()
EquityCleanCell(cell) == IF cell = None THEN Str(<<>>) ELSE Str(Strip(PyStr(cell)))

equity_cell_value(v) ==
    LET shown == IF Truthy(v) THEN v ELSE Str(<<>>)
    IN IF v.kind # "str" THEN Return(shown)
       ELSE IF StartsWith(v.s, "(") /\ EndsWith(v.s, ")")
            THEN LET num == PyFloat(Remove(Inner(v.s), {" "}))
                 IN IF num.ok THEN Return(Negate(num.val)) ELSE Return(shown)
       ELSE LET num == PyFloat(Remove(v.s, {",", " "}))
            IN IF num.ok THEN Return(num.val) ELSE Return(shown)

----------------------------------------------------------------------------
(* script.py: the rectangularizer, FinancialStatementExtractorSingleSheet   *)
(* ._convert_table_to_dataframe and ._clean_dataframe.  A DataFrame is a    *)
(* record of its column labels and its rows, every row as long as columns.  *)

EmptyText == Str(<<>>)

\* pandas isna()
IsNA(v) == v = None \/ (v.kind = "float" /\ v.cls = "nan")

\* "while len(row) < max_cols: row.append('')": the row as the loop leaves it
AppendPad(row, max_cols) ==
    IF Len(row) < max_cols
    THEN row \o [i \in 1..(max_cols - Len(row)) |-> EmptyText]
    ELSE row

\* the row with its padding left out (a faulty variant of PadRow)
PadRowNoPadding(row, max_cols) == SubSeq(row, 1, IF Len(row) < max_cols THEN Len(row) ELSE max_cols)

\* padded_rows.append(row[:max_cols])
PadRow(row, max_cols) == SubSeq(AppendPad(row, max_cols), 1, max_cols)

\* [f(x) for x in seq if keep(x)], for keep = any(cell for cell in row)
RECURSIVE NonEmptyRows(_)
NonEmptyRows(rows) ==
    IF rows = <<>> THEN <<>>
    ELSE IF \E i \in 1..Len(Head(rows)) : Truthy(Head(rows)[i])
         THEN <<Head(rows)>> \o NonEmptyRows(Tail(rows))
    ELSE NonEmptyRows(Tail(rows))

\* pd.DataFrame(padded_rows, columns=headers): ValueError on a row of another width
DataFrame(rows, headers) ==
    IF \E i \in 1..Len(rows) : Len(rows[i]) # Len(headers)
    THEN Raise("ValueError")
    ELSE Return([columns |-> headers, rows |-> rows])

\* the subsequence of seq at the positions of keep, in order
RECURSIVE Select(_, _, _)
Select(seq, keep, i) ==
    IF i > Len(seq) THEN <<>>
    ELSE IF i \in keep THEN <<seq[i]>> \o Select(seq, keep, i + 1)
    ELSE Select(seq, keep, i + 1)

\* df.dropna(how='all'): drop the rows whose every value is NA
DropNARows(df) ==
    [df EXCEPT !.rows =
        Select(df.rows,
               {i \in 1..Len(df.rows) : \E j \in 1..Len(df.rows[i]) : ~IsNA(df.rows[i][j])}, 1)]

\* the all-NA columns dropped from the rows and not from the labels (a faulty
\* variant of DropNAColumns)
DropNAColumnsKeepLabels(df) ==
    LET keep == {j \in 1..Len(df.columns) : \E i \in 1..Len(df.rows) : ~IsNA(df.rows[i][j])}
    IN [columns |-> df.columns,
        rows |-> [i \in 1..Len(df.rows) |-> Select(df.rows[i], keep, 1)]]

\* df.dropna(axis=1, how='all'): drop the columns whose every value is NA
DropNAColumns(df) ==
    LET keep == {j \in 1..Len(df.columns) : \E i \in 1..Len(df.rows) : ~IsNA(df.rows[i][j])}
    IN [columns |-> Select(df.columns, keep, 1),
        rows |-> [i \in 1..Len(df.rows) |-> Select(df.rows[i], keep, 1)]]

\* df.map(lambda x: x.strip() if isinstance(x, str) else x), then df.replace('', None)
CleanValue(v) ==
    IF v.kind = "str" THEN (IF Strip(v.s) = <<>> THEN None ELSE Str(Strip(v.s))) ELSE v

clean_dataframe(df) ==
    LET d == DropNAColumns(DropNARows(df))
    IN [d EXCEPT !.rows = [i \in 1..Len(d.rows) |-> [j \in 1..Len(d.rows[i]) |-> CleanValue(d.rows[i][j])]]]

\* df.empty
IsEmptyFrame(df) == Len(df.rows) = 0 \/ Len(df.columns) = 0

\* returns the DataFrame, or None
convert_table_to_dataframe(table) ==
    IF Len(table) < 2 THEN None
    ELSE LET headers == table[1]
             data_rows == NonEmptyRows(Tail(table))
         IN IF data_rows = <<>> THEN None
            ELSE LET max_cols == Len(headers)
                     padded_rows == [i \in 1..Len(data_rows) |-> PadRow(data_rows[i], max_cols)]
                     df == DataFrame(padded_rows, headers)
                 IN IF df.exc # "none" THEN None ELSE clean_dataframe(df.ret)

\* the tables of a page given up at the first one without a DataFrame (a
\* faulty variant of ExtractTables)
RECURSIVE ExtractTablesStopAtEmpty(_, _, _)
ExtractTablesStopAtEmpty(tables, page_num, k) ==
    IF k > Len(tables) THEN <<>>
    ELSE LET df == convert_table_to_dataframe(tables[k])
         IN IF df # None /\ ~IsEmptyFrame(df)
            THEN <<[df |-> df,
                    metadata |-> [page |-> page_num, table_index |-> k - 1,
                                  rows |-> Len(df.rows), columns |-> Len(df.columns)]]>>
                 \o ExtractTablesStopAtEmpty(tables, page_num, k + 1)
            ELSE <<>>

\* the pairs with table_index counting the tables kept so far on the page
\* instead of the tables seen (a faulty variant of ExtractTables)
RECURSIVE ExtractTablesIndexKept(_, _, _)
ExtractTablesIndexKept(tables, page_num, k) ==
    IF k > Len(tables) THEN <<>>
    ELSE LET df == convert_table_to_dataframe(tables[k])
             kept == {j \in 1..(k - 1) :
                         LET d == convert_table_to_dataframe(tables[j])
                         IN d # None /\ ~IsEmptyFrame(d)}
         IN (IF df # None /\ ~IsEmptyFrame(df)
             THEN <<[df |-> df,
                     metadata |-> [page |-> page_num, table_index |-> Cardinality(kept),
                                   rows |-> Len(df.rows), columns |-> Len(df.columns)]]>>
             ELSE <<>>) \o ExtractTablesIndexKept(tables, page_num, k + 1)

\* extract_all_tables: the (df, metadata) pairs the loops append, pages from
\* page_num on and, within a page, tables from position k on
RECURSIVE ExtractTables(_, _, _)
ExtractTables(tables, page_num, k) ==
    IF k > Len(tables) THEN <<>>
    ELSE LET df == convert_table_to_dataframe(tables[k])
         IN (IF df # None /\ ~IsEmptyFrame(df)
             THEN <<[df |-> df,
                     metadata |-> [page |-> page_num, table_index |-> k - 1,
                                   rows |-> Len(df.rows), columns |-> Len(df.columns)]]>>
             ELSE <<>>) \o ExtractTables(tables, page_num, k + 1)

RECURSIVE ExtractPages(_, _)
ExtractPages(pages, page_num) ==
    IF page_num > Len(pages) THEN <<>>
    ELSE ExtractTables(pages[page_num], page_num, 1) \o ExtractPages(pages, page_num + 1)

----------------------------------------------------------------------------
(* script.py: convert_numeric_columns *)

\* Series.apply(f): the results, as pandas infers their dtype: a column whose
\* results are floats and None becomes float64, None turning into NaN
ApplyToColumn(values) ==
    LET res == [i \in 1..Len(values) |-> convert_to_numeric_script(values[i]).ret]
    IN IF /\ \E i \in 1..Len(res) : res[i].kind = "float"
          /\ \A i \in 1..Len(res) : res[i] = None \/ res[i].kind = "float"
       THEN [i \in 1..Len(res) |-> IF res[i] = None THEN NaN ELSE res[i]]
       ELSE res

\* the frame with its cells as they were extracted (a faulty variant of
\* ConvertFrame)
ConvertFrameSkipped(df) == df

ConvertFrame(df) ==
    LET cols == [j \in 1..Len(df.columns) |->
                    ApplyToColumn([i \in 1..Len(df.rows) |-> df.rows[i][j]])]
    IN [df EXCEPT !.rows = [i \in 1..Len(df.rows) |-> [j \in 1..Len(df.columns) |-> cols[j][i]]]]

----------------------------------------------------------------------------
(* script.py: transform_to_standard_schema *)

standard_columns ==
    << "primary_key", "date_last_updated", "published_date", "reported_date",
       "doc_page_num", "file_page_num", "table_id", "country", "geo_1_id",
       "geo_1_name", "geo_1_type", "geo_2_id", "geo_2_name", "geo_2_type",
       "dim_4_id", "dim_4_name", "dim_3_id", "dim_3_name", "dim_2_id",
       "dim_2_name", "dim_1_id", "dim_1_name", "metric_id", "metric_name",
       "source_metric_id", "source_metric_name", "indentation", "process_flag",
       "base_factor", "display_power_factor", "data_frequency", "aggregation_method",
       "unit", "unit_type", "note_id", "note_reference", "cumulative_periods",
       "comments", "check_sum", "concat", "formula", "2022", "2023", "2024",
       "2022_check", "2023_check", "2024_check" >>

\* datetime.now().strftime('%Y-%m-%d'): the day of the run, one token
Today == Str(<<"TODAY">>)

\* f"{n:03d}"
ZeroPad3(n) ==
    LET ds == NatChars(n)
    IN [i \in 1..(3 - Len(ds)) |-> "0"] \o ds

\* f"TABLE_{table_idx + 1:03d}"
TableId(table_idx) == Str(Chars("TABLE_") \o ZeroPad3(table_idx + 1))

\* an id that embeds the row index alone (a faulty variant of SynthId)
SynthIdRowOnly(prefix, table_idx, row_idx) == Str(prefix \o <<"_">> \o NatChars(row_idx))

\* f"{prefix}_{table_idx}_{row_idx}"
SynthId(prefix, table_idx, row_idx) ==
    Str(prefix \o <<"_">> \o NatChars(table_idx) \o <<"_">> \o NatChars(row_idx))

\* the dim_i_id and dim_i_name of a row
DimId(i, extracted_cols, table_idx, row_idx) ==
    IF Len(extracted_cols) >= i
    THEN SynthId(Chars("DIM") \o NatChars(i), table_idx, row_idx)
    ELSE None
DimName(i, extracted_cols) ==
    IF Len(extracted_cols) >= i THEN Str(PyStr(extracted_cols[i])) ELSE None

\* the periods without the width thresholds: the last cell after the label to
\* 2024, the one before to 2023, the one before that to 2022 (a faulty variant
\* of PeriodValue)
PeriodValueTrailing(year, extracted_cols) ==
    LET n == Len(extracted_cols)
    IN IF year = "2024" /\ n >= 2 THEN extracted_cols[n]
       ELSE IF year = "2023" /\ n >= 3 THEN extracted_cols[n - 1]
       ELSE IF year = "2022" /\ n >= 4 THEN extracted_cols[n - 2]
       ELSE None

\* row_data['2022'], row_data['2023'], row_data['2024']
PeriodValue(year, extracted_cols) ==
    LET n == Len(extracted_cols)
    IN IF year = "2024" /\ n >= 4 THEN extracted_cols[n]
       ELSE IF year = "2023" /\ n >= 5 THEN extracted_cols[n - 1]
       ELSE IF year = "2022" /\ n >= 6 THEN extracted_cols[n - 2]
       ELSE None

\* the keys without the last assignment, row_data['formula'] (a faulty variant
\* of RowDataKeys)
RowDataKeysWithoutFormula ==
    {"primary_key", "date_last_updated", "published_date", "reported_date",
     "doc_page_num", "file_page_num", "table_id", "country",
     "geo_1_id", "geo_1_name", "geo_1_type", "geo_2_id", "geo_2_name", "geo_2_type",
     "dim_1_id", "dim_1_name", "dim_2_id", "dim_2_name",
     "dim_3_id", "dim_3_name", "dim_4_id", "dim_4_name",
     "metric_id", "metric_name", "source_metric_id", "source_metric_name",
     "indentation", "process_flag", "base_factor", "display_power_factor",
     "data_frequency", "aggregation_method", "unit", "unit_type",
     "note_id", "note_reference", "cumulative_periods", "comments",
     "2022", "2022_check", "2023", "2023_check", "2024", "2024_check",
     "check_sum", "concat"}

\* the keys transform_to_standard_schema assigns in row_data, in the order of
\* its assignments
RowDataKeys ==
    {"primary_key", "date_last_updated", "published_date", "reported_date",
     "doc_page_num", "file_page_num", "table_id", "country",
     "geo_1_id", "geo_1_name", "geo_1_type", "geo_2_id", "geo_2_name", "geo_2_type",
     "dim_1_id", "dim_1_name", "dim_2_id", "dim_2_name",
     "dim_3_id", "dim_3_name", "dim_4_id", "dim_4_name",
     "metric_id", "metric_name", "source_metric_id", "source_metric_name",
     "indentation", "process_flag", "base_factor", "display_power_factor",
     "data_frequency", "aggregation_method", "unit", "unit_type",
     "note_id", "note_reference", "cumulative_periods", "comments",
     "2022", "2022_check", "2023", "2023_check", "2024", "2024_check",
     "check_sum", "concat", "formula"}

\* a row_data whose unit and checksum are read from the row instead of being
\* a constant and null (a faulty variant of RowData)
RowDataFromContent(extracted_cols, metadata, table_idx, row_idx, primary_key_counter) ==
    [c \in RowDataKeys |->
        CASE c = "primary_key" -> PyInt(primary_key_counter)
          [] c = "unit" -> DimName(2, extracted_cols)
          [] c = "check_sum" -> extracted_cols[Len(extracted_cols)]
          [] c \in {"2022", "2023", "2024"} -> PeriodValue(c, extracted_cols)
          [] OTHER -> None]

\* the row_data dict of one row
RowData(extracted_cols, metadata, table_idx, row_idx, primary_key_counter) ==
    [c \in RowDataKeys |->
        CASE c = "primary_key" -> PyInt(primary_key_counter)
          [] c \in {"date_last_updated", "published_date"} -> Today
          [] c = "reported_date" -> Str(Chars("2024-12-31"))
          [] c \in {"doc_page_num", "file_page_num"} -> PyInt(metadata.page)
          [] c = "table_id" -> TableId(table_idx)
          [] c = "country" -> Str(Chars("PL"))
          [] c = "dim_1_id" -> DimId(1, extracted_cols, table_idx, row_idx)
          [] c = "dim_2_id" -> DimId(2, extracted_cols, table_idx, row_idx)
          [] c = "dim_3_id" -> DimId(3, extracted_cols, table_idx, row_idx)
          [] c = "dim_4_id" -> DimId(4, extracted_cols, table_idx, row_idx)
          [] c = "dim_1_name" -> DimName(1, extracted_cols)
          [] c = "dim_2_name" -> DimName(2, extracted_cols)
          [] c = "dim_3_name" -> DimName(3, extracted_cols)
          [] c = "dim_4_name" -> DimName(4, extracted_cols)
          [] c = "metric_id" -> SynthId(Chars("METRIC"), table_idx, row_idx)
          [] c = "metric_name" -> Str(Chars("Value_") \o NatChars(row_idx))
          [] c = "source_metric_id" -> SynthId(Chars("SOURCE"), table_idx, row_idx)
          [] c = "source_metric_name" -> Str(Chars("PDF_Extracted"))
          [] c \in {"indentation", "display_power_factor"} -> PyInt(0)
          [] c \in {"process_flag", "base_factor", "cumulative_periods"} -> PyInt(1)
          [] c = "data_frequency" -> Str(Chars("Annual"))
          [] c = "aggregation_method" -> Str(Chars("Sum"))
          [] c = "unit" -> Str(Chars("PLN"))
          [] c = "unit_type" -> Str(Chars("Thousands"))
          [] c = "comments" -> Str(Chars("Extracted from page ") \o NatChars(metadata.page))
          [] c \in {"2022", "2023", "2024"} -> PeriodValue(c, extracted_cols)
          [] OTHER -> None]

\* the rows of one table left out when their first cell is null (a faulty variant of MapRows)
RECURSIVE MapRowsSkipNull(_, _, _, _, _)
MapRowsSkipNull(rows, metadata, table_idx, row_idx, primary_key_counter) ==
    IF row_idx >= Len(rows) THEN <<>>
    ELSE IF IsNA(rows[row_idx + 1][1])
         THEN MapRowsSkipNull(rows, metadata, table_idx, row_idx + 1, primary_key_counter)
    ELSE <<RowData(rows[row_idx + 1], metadata, table_idx, row_idx, primary_key_counter)>>
         \o MapRowsSkipNull(rows, metadata, table_idx, row_idx + 1, primary_key_counter + 1)

\* the inner loop: the records of the rows of one table from row_idx on
RECURSIVE MapRows(_, _, _, _, _)
MapRows(rows, metadata, table_idx, row_idx, primary_key_counter) ==
    IF row_idx >= Len(rows) THEN <<>>
    ELSE <<RowData(rows[row_idx + 1], metadata, table_idx, row_idx, primary_key_counter)>>
         \o MapRows(rows, metadata, table_idx, row_idx + 1, primary_key_counter + 1)

\* the counter set to 1 inside the table loop (a faulty variant of MapTables)
RECURSIVE MapTablesResetKey(_, _, _, _)
MapTablesResetKey(tables, metas, table_idx, primary_key_counter) ==
    IF table_idx >= Len(tables) \/ table_idx >= Len(metas) THEN <<>>
    ELSE MapRows(tables[table_idx + 1].rows, metas[table_idx + 1], table_idx, 0, 1)
         \o MapTablesResetKey(tables, metas, table_idx + 1, 1)

\* the outer loop over zip(self.extracted_tables, self.table_metadata), from
\* table_idx on
RECURSIVE MapTables(_, _, _, _)
MapTables(tables, metas, table_idx, primary_key_counter) ==
    IF table_idx >= Len(tables) \/ table_idx >= Len(metas) THEN <<>>
    ELSE LET records == MapRows(tables[table_idx + 1].rows, metas[table_idx + 1],
                                table_idx, 0, primary_key_counter)
         IN records \o MapTables(tables, metas, table_idx + 1,
                                 primary_key_counter + Len(records))

----------------------------------------------------------------------------
(* The cells handed to the canonicalizers *)

Alphabet == {"0", "1", ".", ",", " ", NBSP, "(", ")", "-", ENDASH, "n", "a", "N", "\n"}

TextsUpTo(k) == UNION {[1..m -> Alphabet] : m \in 0..k}

ExampleTexts ==
    { Chars("(1,234)"), Chars("1 234"), Chars("N/A text"), Chars("(100)"), Chars("50"),
      Chars("1,000"), Chars("Share capital"), Chars("Total"), Chars("200"),
      Chars("Balance as at 31 December 2023"), Chars(" 12 "), Chars("(1 234)"),
      Chars("(abc)"), Chars("-1,234"), Chars("(-5)"), Chars("12.50"), Chars("(0.5)"),
      Chars("1") \o <<NBSP>> \o Chars("234"), Chars("(1") \o <<NBSP>> \o Chars("234)") }

Texts == TextsUpTo(MaxLen) \cup ExampleTexts

Numbers ==
    { Finite(FALSE, 0, 1), Finite(TRUE, 0, 1), Finite(TRUE, 1234, 1), Finite(FALSE, 1234, 1),
      Finite(FALSE, 5, 10), NaN, PyInt(0), PyInt(1) }

CellInputs == {None} \cup {Str(s) : s \in Texts} \cup Numbers

----------------------------------------------------------------------------
(* The canonicalizers as pure functions: one cell, one call, and the call   *)
(* repeated on its own result                                               *)

PipeIdle ==
    /\ pdf = <<>>
    /\ extracted_tables = <<>>
    /\ table_metadata = <<>>
    /\ transformed_data = <<>>
    /\ run_tables = <<>>

NumIdle ==
    /\ value = None
    /\ fn = "none"
    /\ result = Unset
    /\ again = Unset

NumInit ==
    /\ value \in CellInputs
    /\ fn = "none"
    /\ result = Unset
    /\ again = Unset
    /\ PipeIdle
    /\ rect = Unset
    /\ MainIdle

Apply(name, v) ==
    IF name = "script" THEN convert_to_numeric_script(v)
    ELSE IF name = "standard" THEN convert_to_numeric_standard(v)
    ELSE IF name = "page8" THEN try_parse_number(v)
    ELSE IF name = "pymupdf" THEN parse_number(v)
    ELSE equity_cell_value(EquityCleanCell(v))

Call(name) ==
    /\ fn = "none"
    /\ fn' = name
    /\ result' = Apply(name, value)
    /\ UNCHANGED <<value, again, pipeVars, rect, mainVars>>

CallScript == Call("script")
CallStandard == Call("standard")
CallTryParseNumber == Call("page8")
CallParseNumber == Call("pymupdf")
CallEquity == Call("equity")

\* the same canonicalizer applied to what it returned
CallAgain ==
    /\ fn # "none"
    /\ again = Unset
    /\ result.exc = "none"
    /\ again' = Apply(fn, result.ret)
    /\ UNCHANGED <<value, fn, result, pipeVars, rect, mainVars>>

NumNext ==
    \/ CallScript
    \/ CallStandard
    \/ CallTryParseNumber
    \/ CallParseNumber
    \/ CallEquity
    \/ CallAgain

SpecNum == NumInit /\ [][NumNext]_vars

----------------------------------------------------------------------------
(* page8_extractor.py: the rectangularizer of Page8Extractor.extract_page_8 *)

\* "" for None, else str(cell).strip()
Page8CleanCell(cell) == IF cell = None THEN EmptyText ELSE Str(Strip(PyStr(cell)))

\* cleaned_row, padded to len(self.headers) and trimmed to it
Page8Row(row, width) ==
    LET cleaned_row == [i \in 1..Len(row) |-> Page8CleanCell(row[i])]
    IN SubSeq(AppendPad(cleaned_row, width), 1, width)

----------------------------------------------------------------------------
(* The documents: what pdfplumber hands over, a sequence of pages, each a   *)
(* sequence of raw tables, each a sequence of rows of cells (text or None). *)

MaxCols == 6
MaxTables == 3
MaxRectLen == 4

Txt(lit) == Str(Chars(lit))

\* distinct, non-null column labels
HeaderCell(i) == IF i = 1 THEN Txt("Item") ELSE Str(Chars("Col") \o NatChars(i))
Header(w) == [i \in 1..w |-> HeaderCell(i)]

RowPatterns == {"num", "total", "blank", "none", "balance"}

Label(p) ==
    CASE p = "num" -> Txt("Share capital")
      [] p = "total" -> Txt("Total")
      [] p = "balance" -> Txt("Balance as at 31 December 2023")
      [] OTHER -> None

Cycle(p) ==
    CASE p = "num" -> <<Txt("(100)"), Txt("50"), Txt("1,000"), Txt(" 12 ")>>
      [] p = "total" -> <<None, Txt("200"), Txt("-"), Txt("")>>
      [] p = "balance" -> <<Txt("1,000"), None>>
      [] p = "blank" -> <<Txt(""), None, Txt(" ")>>
      [] OTHER -> <<None>>

\* a raw row of len cells after pattern p
RowOf(p, len) ==
    [i \in 1..len |-> IF i = 1 THEN Label(p) ELSE Cycle(p)[((i - 2) % Len(Cycle(p))) + 1]]

\* the rows one cell shorter than, as long as and one cell longer than a header
RowsFor(w) == {RowOf(p, len) : p \in RowPatterns, len \in {w - 1, w, w + 1} \cap Nat}

\* one table of a header and one row, or that row and a second one
RichTables ==
    UNION {{<<Header(w), r>> : r \in RowsFor(w)}
              \cup {<<Header(w), r, RowOf("blank", 2)>> : r \in RowsFor(w)} : w \in 0..MaxCols}

\* the table and the row of the specification's first scenario
ScenarioTable ==
    << <<Txt("Item"), Txt("2023"), Txt("2024")>>,
       <<Txt("Share capital"), Txt("(100)"), Txt("50")>> >>

SmallTables ==
    { ScenarioTable,
      <<Header(4), RowOf("num", 4), RowOf("total", 4)>>,
      <<Header(6), RowOf("num", 6)>>,
      <<Header(2)>>,
      <<Header(2), RowOf("none", 2)>> }

OneTablePages == {<<>>} \cup {<<t>> : t \in SmallTables}
SmallPages == OneTablePages \cup {<<t, u>> : t \in SmallTables, u \in {ScenarioTable, <<Header(2)>>}}

Docs ==
    {<< <<t>> >> : t \in RichTables}
    \cup {<<p>> : p \in SmallPages}
    \cup {<<p, q>> : p \in SmallPages, q \in OneTablePages}

----------------------------------------------------------------------------
(* The pipeline of script.py *)

Init ==
    /\ pdf \in Docs
    /\ extracted_tables = <<>>
    /\ table_metadata = <<>>
    /\ transformed_data = <<>>
    /\ run_tables = <<>>
    /\ NumIdle
    /\ rect = Unset
    /\ MainIdle

\* extract_all_tables(): appends to the tables and metadata already held
ExtractAllTables ==
    LET found == ExtractPages(pdf, 1)
    IN /\ Len(extracted_tables) + Len(found) <= MaxTables
       /\ extracted_tables' = extracted_tables \o [i \in 1..Len(found) |-> found[i].df]
       /\ table_metadata' = table_metadata \o [i \in 1..Len(found) |-> found[i].metadata]
       /\ UNCHANGED <<pdf, transformed_data, run_tables, numVars, rect, mainVars>>

\* convert_numeric_columns(): every column of every table, in place
ConvertNumericColumns ==
    /\ extracted_tables' = [i \in 1..Len(extracted_tables) |-> ConvertFrame(extracted_tables[i])]
    /\ UNCHANGED <<pdf, table_metadata, transformed_data, run_tables, numVars, rect, mainVars>>

\* transform_to_standard_schema(): primary_key_counter = 1, then the loops;
\* run_tables keeps the tables the run read
TransformToStandardSchema ==
    /\ transformed_data' = MapTables(extracted_tables, table_metadata, 0, 1)
    /\ run_tables' = extracted_tables
    /\ UNCHANGED <<pdf, extracted_tables, table_metadata, numVars, rect, mainVars>>

Next ==
    \/ ExtractAllTables
    \/ ConvertNumericColumns
    \/ TransformToStandardSchema

Spec == Init /\ [][Next]_vars

----------------------------------------------------------------------------
(* The rectangularizers on their own, on one raw row and one header width *)

RectCells == {None, Txt(""), Txt("a"), Txt(" b ")}
RectRows == UNION {[1..n -> RectCells] : n \in 0..MaxRectLen}

RectInit ==
    /\ rect \in {[impl |-> "none", row |-> r, width |-> w, out |-> <<>>, raw |-> r] :
                    r \in RectRows, w \in 0..(MaxRectLen + 1)}
    /\ NumIdle
    /\ PipeIdle
    /\ MainIdle

\* script.py: the padding loop and the slice of _convert_table_to_dataframe;
\* rect.row is the row as the caller passed it, rect.raw the caller's list
\* object, which "row.append('')" extends in place, and rect.out the new list
\* "row[:max_cols]" that goes into padded_rows
PadScript ==
    /\ rect.impl = "none"
    /\ rect' = [rect EXCEPT !.impl = "script",
                             !.out = PadRow(rect.row, rect.width),
                             !.raw = AppendPad(rect.row, rect.width)]
    /\ UNCHANGED <<numVars, pipeVars, mainVars>>

\* page8_extractor.py: the row loop of extract_page_8, which fills and pads a
\* new list cleaned_row and leaves the row of the table alone
PadPage8 ==
    /\ rect.impl = "none"
    /\ rect' = [rect EXCEPT !.impl = "page8", !.out = Page8Row(rect.row, rect.width)]
    /\ UNCHANGED <<numVars, pipeVars, mainVars>>

RectNext ==
    \/ PadScript
    \/ PadPage8

SpecRect == RectInit /\ [][RectNext]_vars

----------------------------------------------------------------------------
(* The page-8 extractors: page8_extractor.py, extract_page8_changes_equity.py *)
(* and pymupdf_extractor.py (each a class BudimexPage8Extractor), and        *)
(* extract_page_8_only and create_single_sheet_excel of script.py            *)

\* the page the page-8 programs ask for: pdf.pages[7], len(pdf.pages) < 8
RequestedPage == 8

\* table_data[:15]
TableSubsetRows == 15

\* keyword in text
Contains(text, keyword) ==
    \E i \in 1..(Len(text) - Len(keyword) + 1) : SubSeq(text, i, i + Len(keyword) - 1) = keyword

\* page8_extractor.py and extract_page8_changes_equity.py
Keywords == {Chars("balance"), Chars("comprehensive"), Chars("payment"),
             Chars("contribution"), Chars("sale")}
\* pymupdf_extractor.py
PymupdfKeywords == {Chars("balance as at"), Chars("balance at")}

\* a keyword match on the text as it is written, without lower() (a faulty
\* variant of is_total_or_subtotal)
is_total_or_subtotal_cased(cell_value) ==
    IF ~Truthy(cell_value) THEN FALSE
    ELSE \E keyword \in Keywords : Contains(PyStr(cell_value), keyword)

\* page8_extractor.py: _is_total_or_subtotal
is_total_or_subtotal(cell_value) ==
    IF ~Truthy(cell_value) THEN FALSE
    ELSE \E keyword \in Keywords : Contains(Lower(PyStr(cell_value)), keyword)

\* a row taken for a total when any of its cells holds a keyword (a faulty
\* variant of Page8RowIsTotal)
Page8RowIsTotalAnyCell(row_data) ==
    \E i \in 1..Len(row_data) : is_total_or_subtotal(row_data[i])

\* page8_extractor.py, create_excel_file: the cells of a row get the total
\* font and fill when _is_total_or_subtotal(row_data[0])
Page8RowIsTotal(row_data) == Len(row_data) >= 1 /\ is_total_or_subtotal(row_data[1])

\* extract_page8_changes_equity.py, create_excel_file: the first cell gets the
\* subtotal font when a keyword is in (value.lower() if value else "")
EquityRowIsSubtotal(row_data) ==
    /\ Len(row_data) >= 1
    /\ LET row_label == IF Truthy(row_data[1]) THEN Lower(row_data[1].s) ELSE <<>>
       IN \E keyword \in Keywords : Contains(row_label, keyword)

\* pymupdf_extractor.py, create_excel: is_total
PymupdfRowIsTotal(row) ==
    IF row # <<>>
    THEN \E keyword \in PymupdfKeywords : Contains(Lower(PyStr(row[1])), keyword)
    ELSE FALSE

\* page8_extractor.py: self.headers = [str(h).strip() if h else "" for h in table[0]]
Page8Headers(header_row) ==
    [i \in 1..Len(header_row) |->
        IF Truthy(header_row[i]) THEN Str(Strip(PyStr(header_row[i]))) ELSE EmptyText]

\* page8_extractor.py: the rows extract_page_8 appends for one table
Page8Rows(table) ==
    [i \in 1..(Len(table) - 1) |-> Page8Row(table[i + 1], Len(table[1]))]

\* extract_page8_changes_equity.py: the rows extract_page_8 appends for the
\* tables of the page from position k on, and the headers it is left with
RECURSIVE EquityRows(_, _)
EquityRows(tables, k) ==
    IF k > Len(tables) THEN <<>>
    ELSE (IF tables[k] # <<>> THEN Page8Rows(tables[k]) ELSE <<>>) \o EquityRows(tables, k + 1)

RECURSIVE EquityHeaders(_, _, _)
EquityHeaders(tables, k, sofar) ==
    IF k > Len(tables) THEN sofar
    ELSE EquityHeaders(tables, k + 1, IF tables[k] # <<>> THEN tables[k][1] ELSE sofar)

\* pymupdf_extractor.py: "" for None and "", else str(cell).replace('\n', ' ').strip()
PymupdfCleanCell(cell) ==
    IF cell = None \/ cell = EmptyText THEN EmptyText
    ELSE Str(Strip(ReplaceWithSpace(PyStr(cell), {"\n"})))

PymupdfCleanRow(row) == [i \in 1..Len(row) |-> PymupdfCleanCell(row[i])]

\* pymupdf_extractor.py: self.table_data, the cleaned rows without the rows
\* that have no non-empty cell
PymupdfTableData(table) ==
    NonEmptyRows([i \in 1..Len(table) |-> PymupdfCleanRow(table[i])])

\* the number of cells of a table
RECURSIVE CellCount(_)
CellCount(table) == IF table = <<>> THEN 0 ELSE Len(Head(table)) + CellCount(Tail(table))

\* page.extract_table(): the largest table of the page, the first of them on a
\* tie; without a table None, written <<>> here, which "not table" takes alike
LargestTable(page) ==
    IF page = <<>> THEN <<>>
    ELSE page[CHOOSE k \in 1..Len(page) :
                 /\ \A j \in 1..Len(page) : CellCount(page[j]) <= CellCount(page[k])
                 /\ \A j \in 1..(k - 1) : CellCount(page[j]) < CellCount(page[k])]

\* the words of a text: its maximal runs of characters that are no whitespace
RECURSIVE Words(_)
Words(s) ==
    LET t == LStrip(s)
    IN IF t = <<>> THEN <<>>
       ELSE LET stops == {i \in 1..Len(t) : t[i] \in Whitespace}
                n == IF stops = {} THEN Len(t) + 1
                     ELSE CHOOSE i \in stops : \A j \in stops : i <= j
            IN <<Str(SubSeq(t, 1, n - 1))>> \o Words(SubSeq(t, n, Len(t)))

\* the words of a row of cells, left to right
RECURSIVE RowWords(_)
RowWords(row) ==
    IF row = <<>> THEN <<>>
    ELSE (IF Head(row) = None THEN <<>> ELSE Words(PyStr(Head(row)))) \o RowWords(Tail(row))

\* page.extract_words() grouped by top and sorted by x0: the word texts of
\* every line of the page that has a word, top to bottom
RECURSIVE LinesOf(_)
LinesOf(rows) ==
    IF rows = <<>> THEN <<>>
    ELSE (IF RowWords(Head(rows)) = <<>> THEN <<>> ELSE <<RowWords(Head(rows))>>)
         \o LinesOf(Tail(rows))

RECURSIVE PageLines(_)
PageLines(page) == IF page = <<>> THEN <<>> ELSE LinesOf(Head(page)) \o PageLines(Tail(page))

\* script.py, extract_page_8_only: the (df, metadata) pair it appends for the
\* page, none for a page without a word
ExtractPage8(page) ==
    LET table_data == PageLines(page)
    IN IF table_data = <<>> THEN <<>>
       ELSE LET simple_rows == SubSeq(table_data, 1,
                                      IF Len(table_data) < TableSubsetRows
                                      THEN Len(table_data) ELSE TableSubsetRows)
                max_len == Len(simple_rows[1])
                padded_rows == [i \in 1..(Len(simple_rows) - 1) |->
                                   PadRow(simple_rows[i + 1], max_len)]
                df == DataFrame(padded_rows, simple_rows[1]).ret
            IN <<[df |-> df,
                  metadata |-> [page |-> RequestedPage, table_index |-> 0,
                                rows |-> Len(df.rows), columns |-> Len(df.columns),
                                title |-> "Changes in Equity"]]>>

\* pd.DataFrame(transformed_data, columns=...): the values of one column as
\* pandas holds them, a column of floats and None being float64 with NaN, and
\* a key that a dict lacks being NaN
FrameColumn(values) ==
    IF /\ \E i \in 1..Len(values) : values[i].kind = "float"
       /\ \A i \in 1..Len(values) : values[i] = None \/ values[i].kind = "float"
    THEN [i \in 1..Len(values) |-> IF values[i] = None THEN NaN ELSE values[i]]
    ELSE values

\* script.py, create_single_sheet_excel: the columns converted again on writing
NumericSheetColumns == {"2022", "2023", "2024", "2022_check", "2023_check", "2024_check",
                        "base_factor", "display_power_factor"}

\* the rows create_single_sheet_excel writes under the header row; it gives
\* no row a role
SheetRows(records) ==
    LET column(c) == FrameColumn([k \in 1..Len(records) |->
                                    IF c \in DOMAIN records[k] THEN records[k][c] ELSE NaN])
    IN [k \in 1..Len(records) |->
          [role |-> "none",
           cells |-> [j \in 1..Len(standard_columns) |->
                        LET c == standard_columns[j]
                        IN IF c \in NumericSheetColumns
                           THEN convert_to_numeric_script(column(c)[k]).ret
                           ELSE column(c)[k]]]]

----------------------------------------------------------------------------
(* The documents of the page-8 programs: pages without a table up to the    *)
(* requested page, and the requested page out of a pool.                    *)

MaxP8Cols == 3

P8Patterns == {"num", "balance", "other", "wrapped", "blank", "none"}

P8Label(p) ==
    CASE p = "num" -> Txt("Share capital")
      [] p = "balance" -> Txt("Balance as at 31 December 2023")
      [] p = "other" -> Txt("Other income")
      [] p = "wrapped" -> Txt("Share\npremium")
      [] OTHER -> None

\* cells after the label; the words of a row are pairwise distinct
P8Cycle(p) ==
    CASE p = "num" -> <<Txt("(100)"), Txt("50"), Txt("1,000"), Txt(" 12 "), Txt("7")>>
      [] p = "balance" -> <<Txt("1,000"), None, Txt("(5)"), Txt(""), Txt("8")>>
      [] p = "other" -> <<Txt("Sale of shares"), Txt("10"), Txt("-"), Txt("3"), Txt("4")>>
      [] p = "wrapped" -> <<Txt("1\r000"), Txt(" 5\n"), None, Txt("6"), Txt("9")>>
      [] p = "blank" -> <<Txt(""), None, Txt(" "), Txt("\n"), None>>
      [] OTHER -> <<None>>

P8RowOf(p, len) ==
    [i \in 1..len |-> IF i = 1 THEN P8Label(p) ELSE P8Cycle(p)[((i - 2) % Len(P8Cycle(p))) + 1]]

P8RowsFor(w) == {P8RowOf(p, len) : p \in P8Patterns, len \in {w - 1, w, w + 1} \cap Nat}

\* second rows: the label of an earlier row over other cells
P8SecondRows == {<<Txt("Other income"), Txt("10")>>,
                 <<Txt("Balance as at 31 December 2023"), Txt("2")>>}

\* header rows: column labels, and rows with an absent or a padded label
P8Headers == {Header(w) : w \in 0..MaxP8Cols}
             \cup {<<None, Txt(" 2024 ")>>, <<Txt(""), None>>}

P8Tables ==
    UNION {{<<h>>} \cup {<<h, r>> : r \in P8RowsFor(Len(h))}
              \cup {<<h, r, r2>> : r \in P8RowsFor(Len(h)), r2 \in P8SecondRows} : h \in P8Headers}

P8SmallTables ==
    { ScenarioTable,
      <<Header(0), P8RowOf("num", 2)>>,
      <<Header(2), P8RowOf("balance", 2), P8RowOf("blank", 2)>>,
      <<>> }

\* a table one column wider than the others, so that a period column is filled
P8WideTable ==
    <<Header(MaxP8Cols + 1), P8RowOf("balance", MaxP8Cols + 1), P8RowOf("num", MaxP8Cols + 1)>>

P8Pages ==
    {<<>>, <<P8WideTable>>} \cup {<<t>> : t \in P8Tables}
    \cup {<<t, u>> : t \in P8SmallTables, u \in P8SmallTables}

\* k pages without a table
Blanks(k) == [i \in 1..k |-> <<>>]

Docs8 ==
    {Blanks(k) : k \in {0, RequestedPage - 1}}
    \cup {<< <<ScenarioTable>> >>}
    \cup {Blanks(RequestedPage - 1) \o <<p>> : p \in P8Pages}
    \cup {Blanks(RequestedPage - 1) \o <<p, <<ScenarioTable>>>> : p \in {<<>>, <<ScenarioTable>>}}

----------------------------------------------------------------------------
(* The main programs, each from its first call to its end *)

Programs == {"script_page8", "script_whole", "page8", "equity", "pymupdf"}

MainInit ==
    /\ pdf \in Docs8
    /\ prog \in Programs
    /\ pc = "start"
    /\ extracted_tables = <<>>
    /\ table_metadata = <<>>
    /\ transformed_data = <<>>
    /\ run_tables = <<>>
    /\ self_headers = <<>>
    /\ self_data_rows = <<>>
    /\ workbook = NoWorkbook
    /\ raised = "none"
    /\ stages = <<>>
    /\ NumIdle
    /\ rect = Unset

\* script.py, main_option_1_page_8_only: extractor.extract_page_8_only(), its
\* return value unused
ScriptExtractPage8Only ==
    /\ prog = "script_page8"
    /\ pc = "start"
    /\ LET found == IF Len(pdf) < RequestedPage THEN <<>> ELSE ExtractPage8(pdf[RequestedPage])
       IN /\ extracted_tables' = extracted_tables \o [i \in 1..Len(found) |-> found[i].df]
          /\ table_metadata' = table_metadata \o [i \in 1..Len(found) |-> found[i].metadata]
    /\ pc' = "extracted"
    /\ stages' = Append(stages, "Rectangularizer")
    /\ UNCHANGED <<pdf, transformed_data, run_tables, numVars, rect, prog,
                   self_headers, self_data_rows, workbook, raised>>

\* script.py, main_option_2_whole_pdf: extractor.extract_all_tables()
ScriptExtractAllTables ==
    /\ prog = "script_whole"
    /\ pc = "start"
    /\ LET found == ExtractPages(pdf, 1)
       IN /\ extracted_tables' = extracted_tables \o [i \in 1..Len(found) |-> found[i].df]
          /\ table_metadata' = table_metadata \o [i \in 1..Len(found) |-> found[i].metadata]
    /\ pc' = "extracted"
    /\ stages' = Append(stages, "Rectangularizer")
    /\ UNCHANGED <<pdf, transformed_data, run_tables, numVars, rect, prog,
                   self_headers, self_data_rows, workbook, raised>>

\* both: extractor.convert_numeric_columns()
ScriptConvertNumericColumns ==
    /\ prog \in {"script_page8", "script_whole"}
    /\ pc = "extracted"
    /\ extracted_tables' = [i \in 1..Len(extracted_tables) |-> ConvertFrame(extracted_tables[i])]
    /\ pc' = "converted"
    /\ stages' = Append(stages, "NumericCanonicalizer")
    /\ UNCHANGED <<pdf, table_metadata, transformed_data, run_tables, numVars, rect, prog,
                   self_headers, self_data_rows, workbook, raised>>

\* both: transformed_df = extractor.transform_to_standard_schema()
ScriptTransformToStandardSchema ==
    /\ prog \in {"script_page8", "script_whole"}
    /\ pc = "converted"
    /\ transformed_data' = MapTables(extracted_tables, table_metadata, 0, 1)
    /\ run_tables' = extracted_tables
    /\ pc' = "transformed"
    /\ stages' = Append(stages, "SchemaMapper")
    /\ UNCHANGED <<pdf, extracted_tables, table_metadata, numVars, rect, prog,
                   self_headers, self_data_rows, workbook, raised>>

\* both: extractor.create_single_sheet_excel(transformed_df), which writes the
\* header row, a row per record, and saves
ScriptCreateSingleSheetExcel ==
    /\ prog \in {"script_page8", "script_whole"}
    /\ pc = "transformed"
    /\ workbook' = [saved |-> TRUE,
                    header |-> [j \in 1..Len(standard_columns) |-> Str(Chars(standard_columns[j]))],
                    rows |-> SheetRows(transformed_data)]
    /\ pc' = "done"
    /\ stages' = stages \o (IF transformed_data = <<>> THEN <<"Sink">>
                             ELSE <<"Sink", "NumericCanonicalizer">>)
    /\ UNCHANGED <<pipeVars, numVars, rect, prog, self_headers, self_data_rows, raised>>

\* page8_extractor.py, main: extractor.extract_page_8(); "failed" is its False
Page8ExtractPage8 ==
    /\ prog = "page8"
    /\ pc = "start"
    /\ IF Len(pdf) < RequestedPage \/ pdf[RequestedPage] = <<>> \/ pdf[RequestedPage][1] = <<>>
       THEN /\ pc' = "failed"
            /\ UNCHANGED <<self_headers, self_data_rows>>
       ELSE LET table == pdf[RequestedPage][1]
            IN /\ self_headers' = Page8Headers(table[1])
               /\ self_data_rows' = self_data_rows \o Page8Rows(table)
               /\ pc' = "extracted"
    /\ UNCHANGED <<pipeVars, numVars, rect, prog, workbook, raised, stages>>

\* page8_extractor.py, main: extractor.create_excel_file(); "nodata" is its False
Page8CreateExcelFile ==
    /\ prog = "page8"
    /\ pc = "extracted"
    /\ IF self_headers = <<>> \/ self_data_rows = <<>>
       THEN pc' = "nodata" /\ UNCHANGED workbook
       ELSE /\ workbook' =
                 [saved |-> TRUE,
                  header |-> self_headers,
                  rows |-> [k \in 1..Len(self_data_rows) |->
                              LET row_data == self_data_rows[k]
                              IN [role |-> IF Page8RowIsTotal(row_data) THEN "Emphasis" ELSE "Ordinary",
                                  cells |-> [j \in 1..Len(row_data) |->
                                               IF j = 1 THEN row_data[1]
                                               ELSE try_parse_number(row_data[j]).ret]]]]
            /\ pc' = "done"
    /\ UNCHANGED <<pipeVars, numVars, rect, prog, self_headers, self_data_rows, raised, stages>>

\* extract_page8_changes_equity.py, main: extractor.extract_page_8();
\* pdf.pages[7] raises IndexError on a document of fewer than eight pages
EquityExtractPage8 ==
    /\ prog = "equity"
    /\ pc = "start"
    /\ IF Len(pdf) < RequestedPage
       THEN /\ raised' = "IndexError"
            /\ pc' = "crashed"
            /\ UNCHANGED <<self_headers, self_data_rows>>
       ELSE LET tables == pdf[RequestedPage]
            IN /\ raised' = raised
               /\ IF tables = <<>>
                  THEN pc' = "failed" /\ UNCHANGED <<self_headers, self_data_rows>>
                  ELSE /\ self_headers' = EquityHeaders(tables, 1, self_headers)
                       /\ self_data_rows' = self_data_rows \o EquityRows(tables, 1)
                       /\ pc' = IF self_data_rows \o EquityRows(tables, 1) # <<>>
                                THEN "extracted" ELSE "failed"
    /\ UNCHANGED <<pipeVars, numVars, rect, prog, workbook, stages>>

\* extract_page8_changes_equity.py, main: extractor.create_excel_file()
EquityCreateExcelFile ==
    /\ prog = "equity"
    /\ pc = "extracted"
    /\ IF self_data_rows = <<>> \/ self_headers = <<>>
       THEN pc' = "nodata" /\ UNCHANGED workbook
       ELSE /\ workbook' =
                 [saved |-> TRUE,
                  header |-> self_headers,
                  rows |-> [k \in 1..Len(self_data_rows) |->
                              LET row_data == self_data_rows[k]
                              IN [role |-> IF EquityRowIsSubtotal(row_data) THEN "Emphasis" ELSE "Ordinary",
                                  cells |-> [j \in 1..Len(row_data) |->
                                               IF j = 1
                                               THEN (IF Truthy(row_data[1]) THEN row_data[1] ELSE EmptyText)
                                               ELSE equity_cell_value(row_data[j]).ret]]]]
            /\ pc' = "done"
    /\ UNCHANGED <<pipeVars, numVars, rect, prog, self_headers, self_data_rows, raised, stages>>

\* pymupdf_extractor.py, main: extractor.extract_page_8()
PymupdfExtractPage8 ==
    /\ prog = "pymupdf"
    /\ pc = "start"
    /\ IF Len(pdf) < RequestedPage
       THEN pc' = "failed" /\ UNCHANGED self_data_rows
       ELSE LET table == LargestTable(pdf[RequestedPage])
            IN IF table = <<>>
               THEN pc' = "failed" /\ UNCHANGED self_data_rows
               ELSE /\ self_data_rows' = PymupdfTableData(table)
                    /\ pc' = "extracted"
    /\ UNCHANGED <<pipeVars, numVars, rect, prog, self_headers, workbook, raised, stages>>

\* pymupdf_extractor.py, main: extractor.create_excel(); the first row of
\* table_data is written as the header row
PymupdfCreateExcel ==
    /\ prog = "pymupdf"
    /\ pc = "extracted"
    /\ IF self_data_rows = <<>>
       THEN pc' = "nodata" /\ UNCHANGED workbook
       ELSE /\ workbook' =
                 [saved |-> TRUE,
                  header |-> self_data_rows[1],
                  rows |-> [k \in 1..(Len(self_data_rows) - 1) |->
                              LET row == self_data_rows[k + 1]
                              IN [role |-> IF PymupdfRowIsTotal(row) THEN "Emphasis" ELSE "Ordinary",
                                  cells |-> [j \in 1..Len(row) |->
                                               IF j = 1 THEN row[1]
                                               ELSE parse_number(row[j]).ret]]]]
            /\ pc' = "done"
    /\ UNCHANGED <<pipeVars, numVars, rect, prog, self_headers, self_data_rows, raised, stages>>

MainNext ==
    \/ ScriptExtractPage8Only
    \/ ScriptExtractAllTables
    \/ ScriptConvertNumericColumns
    \/ ScriptTransformToStandardSchema
    \/ ScriptCreateSingleSheetExcel
    \/ Page8ExtractPage8
    \/ Page8CreateExcelFile
    \/ EquityExtractPage8
    \/ EquityCreateExcelFile
    \/ PymupdfExtractPage8
    \/ PymupdfCreateExcel

SpecMain == MainInit /\ [][MainNext]_vars

----------------------------------------------------------------------------
(* An extractor object and a caller that invokes its extraction operations *)
(* in any order and number                                                 *)

MaxCalls == 3

Classes == {"FinancialStatementExtractorSingleSheet", "page8_extractor", "pymupdf_extractor"}

CallPages ==
    {<<t>> : t \in P8SmallTables \cup {P8WideTable, <<Header(2)>>,
                                      <<Header(2), P8RowOf("blank", 2)>>}}
    \cup {<<t, u>> : t \in P8SmallTables, u \in P8SmallTables}

\* documents of eight pages, with and without a table on the first page, and
\* a document that is too short
DocsCalls ==
    {Blanks(RequestedPage - 1) \o <<p>> : p \in CallPages}
    \cup {<< <<ScenarioTable>> >> \o Blanks(RequestedPage - 2) \o <<p>> : p \in CallPages}
    \cup {Blanks(1)}

CallsInit ==
    /\ pdf \in DocsCalls
    /\ prog \in Classes
    /\ pc = "start"
    /\ extracted_tables = <<>>
    /\ table_metadata = <<>>
    /\ transformed_data = <<>>
    /\ run_tables = <<>>
    /\ self_headers = <<>>
    /\ self_data_rows = <<>>
    /\ workbook = NoWorkbook
    /\ raised = "none"
    /\ stages = <<>>
    /\ NumIdle
    /\ rect = Unset

\* script.py: extract_page_8_only()
CallExtractPage8Only ==
    /\ prog = "FinancialStatementExtractorSingleSheet"
    /\ Len(stages) < MaxCalls
    /\ LET found == IF Len(pdf) < RequestedPage THEN <<>> ELSE ExtractPage8(pdf[RequestedPage])
       IN /\ extracted_tables' = extracted_tables \o [i \in 1..Len(found) |-> found[i].df]
          /\ table_metadata' = table_metadata \o [i \in 1..Len(found) |-> found[i].metadata]
    /\ stages' = Append(stages, "extract_page_8_only")
    /\ pc' = "returned"
    /\ UNCHANGED <<pdf, transformed_data, run_tables, numVars, rect, prog,
                   self_headers, self_data_rows, workbook, raised>>

\* script.py: extract_all_tables()
CallExtractAllTables ==
    /\ prog = "FinancialStatementExtractorSingleSheet"
    /\ Len(stages) < MaxCalls
    /\ LET found == ExtractPages(pdf, 1)
       IN /\ extracted_tables' = extracted_tables \o [i \in 1..Len(found) |-> found[i].df]
          /\ table_metadata' = table_metadata \o [i \in 1..Len(found) |-> found[i].metadata]
    /\ stages' = Append(stages, "extract_all_tables")
    /\ pc' = "returned"
    /\ UNCHANGED <<pdf, transformed_data, run_tables, numVars, rect, prog,
                   self_headers, self_data_rows, workbook, raised>>

\* script.py: transform_to_standard_schema(), which pairs the two lists by zip
CallTransformToStandardSchema ==
    /\ prog = "FinancialStatementExtractorSingleSheet"
    /\ Len(stages) < MaxCalls
    /\ LET n == IF Len(extracted_tables) < Len(table_metadata)
                THEN Len(extracted_tables) ELSE Len(table_metadata)
       IN transformed_data' = MapTables(SubSeq(extracted_tables, 1, n),
                                        SubSeq(table_metadata, 1, n), 0, 1)
    /\ run_tables' = extracted_tables
    /\ stages' = Append(stages, "transform_to_standard_schema")
    /\ pc' = "returned"
    /\ UNCHANGED <<pdf, extracted_tables, table_metadata, numVars, rect, prog,
                   self_headers, self_data_rows, workbook, raised>>

\* page8_extractor.py: extract_page_8(), its return value in pc
CallPage8ExtractPage8 ==
    /\ prog = "page8_extractor"
    /\ Len(stages) < MaxCalls
    /\ IF Len(pdf) < RequestedPage \/ pdf[RequestedPage] = <<>> \/ pdf[RequestedPage][1] = <<>>
       THEN /\ pc' = "failed"
            /\ UNCHANGED <<self_headers, self_data_rows>>
       ELSE LET table == pdf[RequestedPage][1]
            IN /\ self_headers' = Page8Headers(table[1])
               /\ self_data_rows' = self_data_rows \o Page8Rows(table)
               /\ pc' = "extracted"
    /\ stages' = Append(stages, "extract_page_8")
    /\ UNCHANGED <<pipeVars, numVars, rect, prog, workbook, raised>>

\* pymupdf_extractor.py: extract_page_8(), its return value in pc
CallPymupdfExtractPage8 ==
    /\ prog = "pymupdf_extractor"
    /\ Len(stages) < MaxCalls
    /\ IF Len(pdf) < RequestedPage
       THEN pc' = "failed" /\ UNCHANGED self_data_rows
       ELSE LET table == LargestTable(pdf[RequestedPage])
            IN IF table = <<>>
               THEN pc' = "failed" /\ UNCHANGED self_data_rows
               ELSE /\ self_data_rows' = PymupdfTableData(table)
                    /\ pc' = "extracted"
    /\ stages' = Append(stages, "extract_page_8")
    /\ UNCHANGED <<pipeVars, numVars, rect, prog, self_headers, workbook, raised>>

CallsNext ==
    \/ CallExtractPage8Only
    \/ CallExtractAllTables
    \/ CallTransformToStandardSchema
    \/ CallPage8ExtractPage8
    \/ CallPymupdfExtractPage8

SpecCalls == CallsInit /\ [][CallsNext]_vars

----------------------------------------------------------------------------
(* Claims about the numeric canonicalizers, checked under SpecNum *)

IsText(v) == v.kind = "str"
Enclosed(t) == StartsWith(t, "(") /\ EndsWith(t, ")")
\* the Null sentinels: "", "nan" in any letter case, a lone dash, a lone en-dash
IsSentinel(t) == t = <<>> \/ Lower(t) = Chars("nan") \/ t = <<"-">> \/ t = <<ENDASH>>
\* the number a text stands for once its separators are removed
Cleaned(t) == PyFloat(Remove(t, Separators))

\* C4: under script.py's _convert_to_numeric, a text that is no Null sentinel,
\* is not enclosed in parentheses and parses as a number once every comma, space
\* and non-breaking space is removed, canonicalizes to that Number.
C4_PlainNumberIsNumber ==
    (/\ fn = "script"
     /\ IsText(value)
     /\ ~IsSentinel(Strip(value.s))
     /\ ~Enclosed(Strip(value.s))
     /\ Cleaned(Strip(value.s)).ok)
    => result = Return(Cleaned(Strip(value.s)).val)

\* C5: under script.py's _convert_to_numeric and the cell parser of
\* extract_page8_changes_equity.py, a text enclosed in parentheses whose interior
\* parses, separators removed, as a non-negative decimal number canonicalizes to
\* the negation of that number, which is never positive; when the interior does
\* not parse, the text is returned unchanged.
C5_ParenthesesNegate ==
    (fn \in {"script", "equity"} /\ IsText(value) /\ Enclosed(Strip(value.s))) =>
        LET t == Strip(value.s)
            num == Cleaned(Inner(t))
        IN /\ (num.ok /\ num.val.cls = "fin" /\ ~num.val.neg) =>
                  (result = Return(Negate(num.val)) /\ ~IsPositive(result.ret))
           /\ ~num.ok => result = Return(Str(t))

\* C6: under script.py's and standard_schema_extractor.py's _convert_to_numeric,
\* an absent cell, the empty string, "nan" in any letter case, a lone dash and a
\* lone en-dash each canonicalize to Null.
C6_SentinelsAreNull ==
    (/\ fn \in {"script", "standard"}
     /\ (value = None \/ (IsText(value) /\ IsSentinel(value.s))))
    => result = Return(None)

\* C7: under script.py's and standard_schema_extractor.py's _convert_to_numeric,
\* canonicalizing the result of canonicalizing a text gives that result again.
C7_Idempotent ==
    (fn \in {"script", "standard"} /\ IsText(value) /\ again # Unset) => again = result

\* a text that is no Null sentinel and stands for no number, with or without
\* enclosing parentheses
NonNumeric(t) ==
    /\ ~IsSentinel(t)
    /\ ~Cleaned(t).ok
    /\ ~(Enclosed(t) /\ Cleaned(Inner(t)).ok)

\* C8: script.py's _convert_to_numeric and page8_extractor.py's
\* _try_parse_number return a Cell Value for every cell (absent, text or
\* already numeric), also for their own result, and never raise; a text that
\* stands for no number comes back as the original trimmed text.
C8_NeverRaises ==
    (fn \in {"script", "page8"}) =>
        /\ result.exc = "none"
        /\ CellKind(result.ret) \in {"Null", "Number", "Text"}
        /\ again # Unset => again.exc = "none"
        /\ (IsText(value) /\ NonNumeric(Strip(value.s))) =>
               result = Return(Str(Strip(value.s)))

\* C8 witness: script.py has passed "N/A text" through as text.
C8_Witness ==
    /\ fn = "script"
    /\ value = Str(Chars("N/A text"))
    /\ result = Return(Str(Chars("N/A text")))

\* C9 as stated: under script.py's _convert_to_numeric and
\* pymupdf_extractor.py's _parse_number, a text that canonicalizes to a negative
\* Number is enclosed in parentheses.
C9_OnlyParenthesesNegate ==
    (/\ fn \in {"script", "pymupdf"}
     /\ IsText(value)
     /\ result.exc = "none"
     /\ IsNegative(result.ret))
    => Enclosed(Strip(value.s))

\* C9 as amended: a text that canonicalizes to a negative Number is enclosed
\* in parentheses, or its first character, once commas, spaces, non-breaking
\* spaces and line breaks are removed, is a minus sign.
C9_ParenthesesOrMinus ==
    (/\ fn \in {"script", "pymupdf"}
     /\ IsText(value)
     /\ result.exc = "none"
     /\ IsNegative(result.ret))
    => \/ Enclosed(Strip(value.s))
       \/ StartsWith(Remove(Strip(value.s), Separators \cup {"\n", "\r"}), "-")

\* C9 witness: _parse_number has turned "-1,234" into the negative number -1234.
C9_Witness ==
    /\ fn = "pymupdf"
    /\ value = Str(Chars("-1,234"))
    /\ result = Return(Finite(TRUE, 1234, 1))

----------------------------------------------------------------------------
(* Claims on the pipeline of script.py *)

\* the number of rows of a sequence of tables
RECURSIVE TotalRows(_)
TotalRows(tables) ==
    IF tables = <<>> THEN 0 ELSE Len(Head(tables).rows) + TotalRows(Tail(tables))

\* the table (t, from 0) and row (r, from 0) of the k-th row in table-then-row order
RECURSIVE Origin(_, _, _)
Origin(tables, k, t) ==
    IF k <= Len(tables[t + 1].rows) THEN [t |-> t, r |-> k - 1]
    ELSE Origin(tables, k - Len(tables[t + 1].rows), t + 1)

\* the cells of the row the k-th record of the last run was made from
SourceRow(k) ==
    LET o == Origin(run_tables, k, 0)
    IN run_tables[o.t + 1].rows[o.r + 1]

\* C1: the records of a run carry the primary keys 1, 2, ..., N in emission
\* order, without gap or repeat, across table boundaries, and every run
\* starts again at 1.
C1_DensePrimaryKeys ==
    \A k \in 1..Len(transformed_data) : transformed_data[k]["primary_key"] = PyInt(k)

\* a run over at least two tables, the key running on across the boundary
C1_Witness ==
    /\ Len(transformed_data) >= 3
    /\ \E k \in 1..(Len(transformed_data) - 1) :
          /\ transformed_data[k]["table_id"] # transformed_data[k + 1]["table_id"]
          /\ transformed_data[k + 1]["primary_key"] = PyInt(k + 1)

\* C2: a run emits exactly one record per row of the tables it reads, in
\* table order and then row order, whatever the row's label or length: as
\* many records as the tables have rows, the k-th made from the k-th row.
C2_OneRecordPerRow ==
    /\ Len(transformed_data) = TotalRows(run_tables)
    /\ \A k \in 1..Len(transformed_data) :
          k <= TotalRows(run_tables) =>
             LET o == Origin(run_tables, k, 0)
             IN /\ transformed_data[k]["table_id"] = TableId(o.t)
                /\ transformed_data[k]["metric_id"] = SynthId(Chars("METRIC"), o.t, o.r)
                /\ transformed_data[k]["dim_1_name"] = Str(PyStr(SourceRow(k)[1]))

\* a run over two tables that emits a record for a row without a label
C2_Witness ==
    /\ Len(run_tables) >= 2
    /\ Len(transformed_data) >= 3
    /\ \E k \in 1..Len(transformed_data) : transformed_data[k]["dim_1_name"] = Txt("None")

\* C3 as the specification states it: of the cells after the label the last
\* goes to 2024, the one before it to 2023 and the one before that to 2022,
\* so that a row of a label and two values has two period fields populated.
C3_TrailingCellsToPeriods ==
    \A k \in 1..Len(transformed_data) :
       LET cols == SourceRow(k)
           n == Len(cols)
       IN /\ n >= 2 => transformed_data[k]["2024"] = cols[n]
          /\ n >= 3 => transformed_data[k]["2023"] = cols[n - 1]
          /\ n >= 4 => transformed_data[k]["2022"] = cols[n - 2]

\* C3: the period fields are set by the width of the row: 2024 is the last
\* cell only from four cells on, 2023 the one before it only from five cells
\* on, 2022 the one before that only from six cells on, and null otherwise;
\* the first cell is dim_1_name as text.  A row of three cells has its label
\* in dim_1_name and all three period fields null.
C3_PeriodsByWidth ==
    \A k \in 1..Len(transformed_data) :
       LET cols == SourceRow(k)
           n == Len(cols)
           rec == transformed_data[k]
       IN /\ rec["dim_1_name"] = Str(PyStr(cols[1]))
          /\ rec["2024"] = IF n >= 4 THEN cols[n] ELSE None
          /\ rec["2023"] = IF n >= 5 THEN cols[n - 1] ELSE None
          /\ rec["2022"] = IF n >= 6 THEN cols[n - 2] ELSE None
          /\ n = 3 => rec["2024"] = None /\ rec["2023"] = None /\ rec["2022"] = None

\* the scenario row ("Share capital", "(100)", "50") converted and mapped,
\* next to a row of six cells with its three periods set
C3_Witness ==
    \E j, k \in 1..Len(transformed_data) :
       /\ Len(SourceRow(j)) = 3
       /\ transformed_data[j]["dim_1_name"] = Txt("Share capital")
       /\ SourceRow(j)[2] = Finite(TRUE, 100, 1)
       /\ transformed_data[j]["2024"] = None
       /\ Len(SourceRow(k)) = 6
       /\ transformed_data[k]["2022"] # None
       /\ transformed_data[k]["2024"] # None

----------------------------------------------------------------------------
(* Claims on the rectangularizers *)

----------------------------------------------------------------------------
(* More claims on the pipeline of script.py *)

\* the raw table the k-th extracted table was made from
RawTableOf(k) == pdf[table_metadata[k].page][table_metadata[k].table_index + 1]

Productive(p, j) ==
    LET df == convert_table_to_dataframe(pdf[p][j])
    IN df # None /\ ~IsEmptyFrame(df)

\* C13: a page without a table and a table of no rows or of a header row
\* alone contribute no table and no record, and the run goes on: every unit
\* that yields a table has its table extracted and its records emitted.
C13_EmptyUnitsContributeNothing ==
    /\ \A k \in 1..Len(table_metadata) : Len(RawTableOf(k)) >= 2
    /\ \A k \in 1..Len(transformed_data) :
          LET m == table_metadata[Origin(run_tables, k, 0).t + 1]
          IN /\ Len(pdf[m.page][m.table_index + 1]) >= 2
             /\ transformed_data[k]["doc_page_num"] = PyInt(m.page)
    /\ table_metadata # <<>> =>
          \A p \in 1..Len(pdf) : \A j \in 1..Len(pdf[p]) :
             Productive(p, j) =>
                \E k \in 1..Len(table_metadata) :
                   table_metadata[k].page = p /\ table_metadata[k].table_index = j - 1
    /\ \A k \in 1..Len(run_tables) :
          \E r \in 1..Len(transformed_data) : transformed_data[r]["table_id"] = TableId(k - 1)

\* a table of a header row alone, and the records of a unit after it
C13_Witness ==
    \E p \in 1..Len(pdf) : \E j \in 1..Len(pdf[p]) :
       /\ Len(pdf[p][j]) < 2
       /\ \E k \in 1..Len(transformed_data) :
             LET m == table_metadata[Origin(run_tables, k, 0).t + 1]
             IN m.page > p \/ (m.page = p /\ m.table_index > j - 1)

\* the record field names of the i-th dimension
DimIdField(i) == CASE i = 1 -> "dim_1_id" [] i = 2 -> "dim_2_id" [] i = 3 -> "dim_3_id" [] OTHER -> "dim_4_id"
DimNameField(i) == CASE i = 1 -> "dim_1_name" [] i = 2 -> "dim_2_name" [] i = 3 -> "dim_3_name" [] OTHER -> "dim_4_name"

Blank(cell) == cell = None \/ (cell.kind = "str" /\ Strip(cell.s) = <<>>)

\* C17: a raw row whose every cell is absent, empty or whitespace only gives
\* no row of the extracted table: the table has no more rows than the raw
\* table has body rows with a cell that is not blank.
C17_EmptyRowsDropped ==
    \A k \in 1..Len(extracted_tables) :
       LET raw == RawTableOf(k)
       IN Len(extracted_tables[k].rows) <=
             Cardinality({i \in 2..Len(raw) : \E j \in 1..Len(raw[i]) : ~Blank(raw[i][j])})

\* C20: every record holds unit PLN, unit_type Thousands, aggregation_method
\* Sum, data_frequency Annual and country PL, and null in the geography, the
\* note and the checksum fields, whatever its row holds.
C20_ConstantsAndNulls ==
    \A k \in 1..Len(transformed_data) :
       LET rec == transformed_data[k]
       IN /\ rec["unit"] = Txt("PLN")
          /\ rec["unit_type"] = Txt("Thousands")
          /\ rec["aggregation_method"] = Txt("Sum")
          /\ rec["data_frequency"] = Txt("Annual")
          /\ rec["country"] = Txt("PL")
          /\ \A c \in {"geo_1_id", "geo_1_name", "geo_1_type", "geo_2_id", "geo_2_name",
                       "geo_2_type", "note_id", "note_reference", "check_sum",
                       "2022_check", "2023_check", "2024_check"} : rec[c] = None

\* records of two rows of different content, one with its periods set
C20_Witness ==
    \E j, k \in 1..Len(transformed_data) :
       /\ transformed_data[j]["dim_1_name"] # transformed_data[k]["dim_1_name"]
       /\ transformed_data[j]["2024"] # None
       /\ transformed_data[k]["2024"] = None

----------------------------------------------------------------------------
(* Claims on the main programs, checked under SpecMain *)

\* the page-8 programs: every program but the whole-document run of script.py
Page8Programs == Programs \ {"script_whole"}

\* C12: when the document has fewer pages than the requested page, a page-8
\* run ends without output: its Schema Mapper and its record sink are not
\* invoked afterwards and no spreadsheet is written.
C12_MissingPageNoOutput ==
    (prog \in Page8Programs /\ Len(pdf) < RequestedPage) =>
        /\ pc \notin {"transformed", "done"}
        /\ workbook.saved = FALSE

\* the default keyword set and a narrower set of phrases
DefaultKeywordSet == {Chars("balance"), Chars("comprehensive"), Chars("payment"),
                      Chars("contribution"), Chars("sale")}
NarrowKeywordSet == {Chars("balance as at"), Chars("balance at")}

\* the first cell, lower-cased, contains a keyword of the set as a substring
FirstCellHasKeyword(cells, set) ==
    /\ Len(cells) >= 1
    /\ cells[1].kind = "str"
    /\ \E kw \in set : Contains(Lower(cells[1].s), kw)

\* the table whose rows the writer classifies: the first table of the page in
\* page8_extractor.py, table_data in pymupdf_extractor.py
ClassifiedTable ==
    IF prog = "page8" THEN pdf[RequestedPage][1] ELSE self_data_rows

\* C14: in a written sheet the row at position 0 of the classified table is
\* the header row whatever it holds, and every other row is Emphasis exactly
\* when its first cell, lower-cased, contains a keyword of the configured set
\* (the default set in page8_extractor.py, the phrases "balance as at" and
\* "balance at" in pymupdf_extractor.py), and Ordinary otherwise.
C14_RoleByFirstCellKeyword ==
    (prog \in {"page8", "pymupdf"} /\ workbook.saved) =>
        LET configured == IF prog = "page8" THEN DefaultKeywordSet ELSE NarrowKeywordSet
        IN /\ Len(workbook.rows) = Len(ClassifiedTable) - 1
           /\ workbook.header = IF prog = "page8" THEN Page8Headers(ClassifiedTable[1])
                                 ELSE ClassifiedTable[1]
           /\ \A k \in 1..Len(workbook.rows) :
                  /\ workbook.rows[k].role \in {"Emphasis", "Ordinary"}
                  /\ workbook.rows[k].role = "Emphasis"
                        <=> FirstCellHasKeyword(workbook.rows[k].cells, configured)

\* a sheet of page8_extractor.py with the row ("Balance as at 31 December
\* 2023", "1,000") as Emphasis above an Ordinary row
C14_Witness ==
    /\ prog = "page8"
    /\ workbook.saved
    /\ Len(workbook.rows) = 2
    /\ workbook.rows[1].role = "Emphasis"
    /\ workbook.rows[1].cells[1] = Txt("Balance as at 31 December 2023")
    /\ Len(workbook.rows[1].cells) = 2
    /\ IsNumber(workbook.rows[1].cells[2])
    /\ workbook.rows[2].role = "Ordinary"

\* C15: in a written sheet of page8_extractor.py or of
\* extract_page8_changes_equity.py, two data rows with the same first-cell text
\* have the same role, whatever their other cells and their positions.
C15_SameFirstCellSameRole ==
    (prog \in {"page8", "equity"} /\ workbook.saved) =>
        /\ Len(workbook.rows) = Len(self_data_rows)
        /\ \A k1, k2 \in 1..Len(self_data_rows) :
               (/\ Len(self_data_rows[k1]) >= 1
                /\ Len(self_data_rows[k2]) >= 1
                /\ self_data_rows[k1][1] = self_data_rows[k2][1])
               => workbook.rows[k1].role = workbook.rows[k2].role

\* two rows labelled "Other income" at different positions, the first of them
\* with a keyword in its second cell, the second with a number there
C15_Witness ==
    /\ prog \in {"page8", "equity"}
    /\ workbook.saved
    /\ Len(self_data_rows) = 2
    /\ Len(self_data_rows[1]) >= 2
    /\ Len(self_data_rows[2]) >= 2
    /\ self_data_rows[1][1] = Txt("Other income")
    /\ self_data_rows[2][1] = Txt("Other income")
    /\ self_data_rows[1][2] = Txt("Sale of shares")
    /\ IsNumber(workbook.rows[2].cells[2])
    /\ workbook.rows[1].role = "Ordinary"
    /\ workbook.rows[2].role = "Ordinary"

\* a table without a HeaderRow, or with one of width 0
NoHeader(table) == table = <<>> \/ Len(table[1]) = 0

\* the number of body rows of the tables that have a HeaderRow of some width
RECURSIVE BodyRowsUnderHeaders(_)
BodyRowsUnderHeaders(tables) ==
    IF tables = <<>> THEN 0
    ELSE (IF NoHeader(Head(tables)) THEN 0 ELSE Len(Head(tables)) - 1)
         + BodyRowsUnderHeaders(Tail(tables))

\* what script.py keeps of a page whose tables all lack a header
C19_Script ==
    (/\ prog = "script_whole"
     /\ pc # "start"
     /\ \A p \in 1..Len(pdf) : \A j \in 1..Len(pdf[p]) : NoHeader(pdf[p][j]))
    => (extracted_tables = <<>> /\ transformed_data = <<>>)

\* page8_extractor.py on a first table without a header: nothing is written
\* (the zero-width rows it keeps in data_rows are never written)
C19_Page8 ==
    (/\ prog = "page8"
     /\ Len(pdf) >= RequestedPage
     /\ pdf[RequestedPage] # <<>>
     /\ NoHeader(pdf[RequestedPage][1]))
    => (pc # "done" /\ ~workbook.saved)

\* extract_page8_changes_equity.py: the sheet has no row of a table without a
\* header, and nothing is written when no table of the page has a header
C19_Equity ==
    (prog = "equity" /\ Len(pdf) >= RequestedPage)
    => /\ (\A j \in 1..Len(pdf[RequestedPage]) : NoHeader(pdf[RequestedPage][j]))
             => (pc # "done" /\ ~workbook.saved)
       /\ workbook.saved => Len(workbook.rows) = BodyRowsUnderHeaders(pdf[RequestedPage])

\* C19: a table whose HeaderRow is empty (width 0) or absent yields no rows
\* and no records, whatever body rows follow it, and its unit is reported as
\* having no table, without an exception.
C19_NoHeaderNoRows ==
    /\ raised = "none" \/ Len(pdf) < RequestedPage
    /\ C19_Script
    /\ C19_Page8
    /\ C19_Equity

\* a cell as a NormalizedRow shall hold it: a text, without leading or
\* trailing whitespace and without a newline or a carriage return
NormalCell(cell) ==
    /\ cell.kind = "str"
    /\ Strip(cell.s) = cell.s
    /\ \A i \in 1..Len(cell.s) : cell.s[i] \notin {"\n", "\r"}

\* C18: in every normalized row (table_data of pymupdf_extractor.py, the rows
\* of a DataFrame that _clean_dataframe of script.py returned) an absent cell
\* is the empty text, and a present cell is stripped and has a single space
\* for every embedded newline or carriage return.
C18_CellsNormalized ==
    /\ (prog = "pymupdf" /\ pc = "extracted") =>
           \A k \in 1..Len(self_data_rows) : \A j \in 1..Len(self_data_rows[k]) :
               NormalCell(self_data_rows[k][j])
    /\ (prog = "script_whole" /\ pc = "extracted") =>
           \A t \in 1..Len(extracted_tables) :
               \A i \in 1..Len(extracted_tables[t].rows) :
                   \A j \in 1..Len(extracted_tables[t].rows[i]) :
                       NormalCell(extracted_tables[t].rows[i][j])

----------------------------------------------------------------------------
(* Claims on the records, the stages and the extractor's lists *)

ScriptPrograms == {"script_page8", "script_whole"}

\* C21: every record the mapper emits has exactly the fields named in
\* standard_columns, each of them set, and the sink writes them in the order
\* of standard_columns, under a header row of these names.
C21_RecordsCarryTheSchema ==
    /\ \A i, j \in 1..Len(standard_columns) :
           standard_columns[i] = standard_columns[j] => i = j
    /\ \A k \in 1..Len(transformed_data) :
           DOMAIN transformed_data[k] = {standard_columns[i] : i \in 1..Len(standard_columns)}
    /\ (prog \in ScriptPrograms /\ workbook.saved) =>
           /\ Len(workbook.header) = Len(standard_columns)
           /\ \A j \in 1..Len(standard_columns) :
                  workbook.header[j] = Str(Chars(standard_columns[j]))
           /\ Len(workbook.rows) = Len(transformed_data)
           /\ \A k \in 1..Len(workbook.rows) :
                  Len(workbook.rows[k].cells) = Len(standard_columns)

\* a written sheet of two records or more, one of them of a row of three cells
C21_Witness ==
    /\ prog \in ScriptPrograms
    /\ workbook.saved
    /\ Len(transformed_data) >= 2
    /\ \E k \in 1..Len(transformed_data) :
           transformed_data[k]["dim_3_name"] # None /\ transformed_data[k]["dim_4_name"] = None


\* the place of a component in the pipeline
StageRank(name) ==
    CASE name = "Rectangularizer" -> 1
      [] name = "NumericCanonicalizer" -> 2
      [] name = "SchemaMapper" -> 3
      [] OTHER -> 4

\* a cell the Numeric Canonicalizer of script.py leaves as it is
Canonicalized(cell) ==
    \/ cell = None
    \/ IsNumber(cell)
    \/ cell.kind = "str" /\ convert_to_numeric_script(cell).ret = cell

\* every cell of the tables the Schema Mapper read is canonicalized
MapperReadsCanonicalized ==
    pc \in {"transformed", "done"} =>
        \A t \in 1..Len(run_tables) : \A i \in 1..Len(run_tables[t].rows) :
            \A j \in 1..Len(run_tables[t].rows[i]) : Canonicalized(run_tables[t].rows[i][j])

PositionMarks(n) == [p \in 1..n |-> PyInt(p)]

\* the positions of a row of n cells that the mapper copies into a dimension
\* label, and those it copies into a period field
DimensionPositions(n) ==
    {p \in 1..n : \E i \in 1..4 : DimName(i, PositionMarks(n)) = Str(PyStr(PyInt(p)))}
PeriodPositions(n) ==
    {p \in 1..n : \E year \in {"2022", "2023", "2024"} :
                      PeriodValue(year, PositionMarks(n)) = PyInt(p)}

\* C23: for every record, no position of its row is copied both into one of
\* dim_1_name..dim_4_name and into one of the fields 2022, 2023, 2024.
C23_DimensionsAndPeriodsDisjoint ==
    \A k \in 1..Len(transformed_data) :
        LET n == Len(SourceRow(k))
        IN DimensionPositions(n) \cap PeriodPositions(n) = {}


\* C24: a record of a row whose cell at one of the first four positions is
\* Null (None, or NaN in a column of floats) has a null dim_i_name for that
\* position, never a text such as "None".
C24_NullCellNullDimension ==
    \A k \in 1..Len(transformed_data) : \A i \in 1..4 :
        LET cols == SourceRow(k)
        IN (i <= Len(cols) /\ (cols[i] = None \/ cols[i] = NaN))
               => transformed_data[k][DimNameField(i)] = None


\* C25: after any sequence of extract_page_8_only and extract_all_tables
\* calls, extracted_tables and table_metadata are equally long and entry k of
\* table_metadata gives the page and the table index that entry k of
\* extracted_tables was extracted from, with its numbers of rows and columns;
\* the records of a mapping carry the page of the table their row is in.
C25_MetadataPairedWithTables ==
    prog = "FinancialStatementExtractorSingleSheet" =>
        /\ Len(extracted_tables) = Len(table_metadata)
        /\ \A k \in 1..Len(extracted_tables) :
               LET m == table_metadata[k]
                   df == extracted_tables[k]
               IN /\ m.rows = Len(df.rows)
                  /\ m.columns = Len(df.columns)
                  /\ m.page \in 1..Len(pdf)
                  /\ IF "title" \in DOMAIN m
                     THEN /\ m.page = RequestedPage
                          /\ m.table_index = 0
                          /\ df = ExtractPage8(pdf[RequestedPage])[1].df
                     ELSE /\ m.table_index + 1 \in 1..Len(pdf[m.page])
                          /\ df = convert_table_to_dataframe(pdf[m.page][m.table_index + 1])
        /\ Len(transformed_data) = TotalRows(run_tables)
        /\ \A k \in 1..Len(transformed_data) :
               transformed_data[k]["doc_page_num"]
                   = PyInt(table_metadata[Origin(run_tables, k, 0).t + 1].page)

\* three calls, of both operations, that left tables of two different pages,
\* the second table of its page among them
C25_Witness ==
    /\ prog = "FinancialStatementExtractorSingleSheet"
    /\ Len(stages) = 3
    /\ \E i, j \in 1..2 : stages[i] = "extract_page_8_only" /\ stages[j] = "extract_all_tables"
    /\ stages[3] = "transform_to_standard_schema"
    /\ \E k \in 1..Len(table_metadata) : table_metadata[k].page = 1
    /\ \E k \in 1..Len(table_metadata) :
           /\ table_metadata[k].table_index = 1
           /\ \A j \in 1..Len(table_metadata) :
                  "title" \in DOMAIN table_metadata[j] \/ table_metadata[j].table_index # 0
                  \/ table_metadata[j].page # RequestedPage
    /\ Len(transformed_data) >= 3


\* C26: in page8_extractor.py and pymupdf_extractor.py, an extraction step
\* that returned True is never followed by an Excel-creation step that finds
\* nothing to export and returns False.
C26_ExtractedThenWritten ==
    prog \in {"page8", "pymupdf"} => pc # "nodata"


\* C27: after extract_page_8 of extract_page8_changes_equity.py, every row of
\* extracted_data is as long as self.headers, the header row that
\* create_excel_file writes, also for a page with tables of different widths.
C27_EquityRowsAsWideAsHeaders ==
    (prog = "equity" /\ pc \in {"extracted", "done", "nodata"}) =>
        /\ \A k \in 1..Len(self_data_rows) : Len(self_data_rows[k]) = Len(self_headers)
        /\ workbook.saved =>
               \A k \in 1..Len(workbook.rows) :
                   Len(workbook.rows[k].cells) = Len(workbook.header)


\* C28: rectangularizing leaves the caller's raw row unchanged: after
\* _convert_table_to_dataframe has padded and truncated a row, the row the
\* caller passed has the same length and the same cells as before the call.
C28_RawRowsUnchanged ==
    rect.impl = "script" => rect.raw = rect.row


\* the caller has run the one extraction operation op, once or several times
OnlyCalled(op) ==
    /\ Len(stages) >= 1
    /\ \A i \in 1..Len(stages) : stages[i] = op

\* C29: running an extraction operation again on the same extractor object over
\* the same document leaves the stored tables and rows equal to those of one
\* run: extract_all_tables and extract_page_8_only of script.py hold the tables
\* of one pass over the document, and extract_page_8 of page8_extractor.py and
\* of pymupdf_extractor.py hold the rows of the one table of page 8.
C29_ReExtractionDoesNotAccumulate ==
    /\ (prog = "FinancialStatementExtractorSingleSheet" /\ OnlyCalled("extract_all_tables")) =>
           LET found == ExtractPages(pdf, 1)
           IN /\ extracted_tables = [i \in 1..Len(found) |-> found[i].df]
              /\ table_metadata = [i \in 1..Len(found) |-> found[i].metadata]
    /\ (prog = "FinancialStatementExtractorSingleSheet" /\ OnlyCalled("extract_page_8_only")) =>
           LET found == IF Len(pdf) < RequestedPage THEN <<>>
                        ELSE ExtractPage8(pdf[RequestedPage])
           IN /\ extracted_tables = [i \in 1..Len(found) |-> found[i].df]
              /\ table_metadata = [i \in 1..Len(found) |-> found[i].metadata]
    /\ (prog = "page8_extractor" /\ pc = "extracted") =>
           self_data_rows = Page8Rows(pdf[RequestedPage][1])
    /\ (prog = "pymupdf_extractor" /\ pc = "extracted") =>
           self_data_rows = PymupdfTableData(LargestTable(pdf[RequestedPage]))


\* the numeric canonicalizers the repository duplicates
Canonicalizers == {"script", "standard", "page8", "pymupdf"}

\* C30: on every text input the canonicalizers of script.py,
\* standard_schema_extractor.py, page8_extractor.py and pymupdf_extractor.py
\* agree: whichever of them was called, each of the others returns the same
\* kind of cell value with the same value.
C30_CanonicalizersAgree ==
    (fn \in Canonicalizers /\ value.kind = "str") =>
        \A name \in Canonicalizers : Apply(name, value) = result

============================================================================
